---- MODULE Spec2Model ----
(***************************************************************************)
(* A model of orderedpool.MapOrdered (src/map_ordered.go): the submitter   *)
(* goroutine, the worker pool, the goroutine that closes resultChan after  *)
(* wg.Wait(), and the collecting loop of the main goroutine with its       *)
(* reorder buffer.  The caller is the environment: it sends items on the   *)
(* input channel, closes it, cancels the root context and reads output.    *)
(*                                                                         *)
(* Fields named src and arg are history only: the position in the input   *)
(* stream of the item a task or a result was made from, and that item.     *)
(* nread, nOk and nErr count what has happened.  The code reads none.      *)
(***************************************************************************)
EXTENDS Integers, Sequences, FiniteSets, TLC

\* ------------------------------------------------------------------ bounds

\* The caller sends at most MaxItems items on input in the runs of Spec.
MaxItems == 3

\* The caller sends at most MaxItemsLong items in the runs of SpecLong.
MaxItemsLong == 4

\* The caller sends at most MaxItemsSizes items in the runs of SpecSizes.
MaxItemsSizes == 2

\* The caller sends at most MaxItemsDeep items in the runs of SpecDeep.
MaxItemsDeep == 7

\* ---------------------------------------------------------- option inputs

\* Options.Workers and Options.MaxInFlight as passed by the caller: both
\* invalid; both valid with MaxInFlight above Workers; Workers valid and
\* MaxInFlight below it.
SizeChoices == {<<0, 0>>, <<1, 2>>, <<2, 1>>}

\* Options.EarlyStopN as passed by the caller (0 disables early stop).
EarlyStopChoices == {0, 2}

\* Options.TaskTimeout as passed by the caller (0 disables the deadline).
TaskTimeoutChoices == {0, 1}

\* The Options values MapOrdered is called with.  A deadline is combined
\* with every size, without early stop and with PanicAsError.
OptionChoices ==
    {[Workers |-> s[1], MaxInFlight |-> s[2], EarlyStopN |-> e,
      PanicAsError |-> p, TaskTimeout |-> 0] :
        s \in SizeChoices, e \in EarlyStopChoices, p \in BOOLEAN}
    \cup
    {[Workers |-> s[1], MaxInFlight |-> s[2], EarlyStopN |-> 0,
      PanicAsError |-> TRUE, TaskTimeout |-> t] :
        s \in SizeChoices, t \in TaskTimeoutChoices \ {0}}

\* Options.Workers and Options.MaxInFlight over a range that holds every
\* case of the normalisation: negative, zero and positive, MaxInFlight
\* below, equal to and above Workers.
WorkersChoices == {-1, 0, 1, 2}
MaxInFlightChoices == {-1, 0, 1, 2, 3}

\* The Options values of the runs of SpecSizes: every pair of sizes, with
\* and without a deadline, without early stop and with PanicAsError.
SizeOptionChoices ==
    {[Workers |-> w, MaxInFlight |-> m, EarlyStopN |-> 0,
      PanicAsError |-> TRUE, TaskTimeout |-> t] :
        w \in WorkersChoices, m \in MaxInFlightChoices, t \in TaskTimeoutChoices}

\* The Options values of the runs of SpecDeep: one worker, MaxInFlight 1
\* and 2, a deadline, no early stop, PanicAsError.
DeepOptionChoices ==
    {[Workers |-> 1, MaxInFlight |-> m, EarlyStopN |-> 0,
      PanicAsError |-> TRUE, TaskTimeout |-> t] :
        m \in {1, 2}, t \in TaskTimeoutChoices \ {0}}

\* The item values of the input stream.  The transform of this model is
\* the three transforms of the repository's tests in one: it doubles 1
\* (TestBasic), for 2 it waits and returns an ordinary error, or the
\* context's error when it sees the context done (TestTimeout), and it
\* panics for 3 (TestPanicAsError).
Values == {1, 2, 3}

\* --------------------------------------------------------------- the types

\* the worker goroutines that can exist: as many as the largest Workers
AllWorkers == 1..2

\* error values: nil, an ordinary error of the transform, the context's
\* error (deadline exceeded or cancelled), and *PanicError{Panic: payload}
NilErr == [kind |-> "nil", Panic |-> 0]
PlainErr == [kind |-> "error", Panic |-> 0]
CtxErr == [kind |-> "context", Panic |-> 0]
PanicError(r) == [kind |-> "PanicError", Panic |-> r]

\* the zero value of R, which a worker's res holds when fn did not set it
ZeroR == 0

NoTask == [index |-> -1, value |-> 0, src |-> -1]
NoResult == [index |-> -1, Value |-> ZeroR, Err |-> NilErr, src |-> -1, arg |-> 0]
NoItem == [Value |-> ZeroR, Err |-> NilErr, src |-> -1, arg |-> 0]

\* a slip: Workers <= 0 is replaced by 2
NormWorkers_Two(o) == IF o.Workers <= 0 THEN 2 ELSE o.Workers

\* Options after the normalisation at the head of MapOrdered
NormWorkers(o) == IF o.Workers <= 0 THEN 1 ELSE o.Workers
\* a slip: MaxInFlight is compared with Workers as the caller passed it
NormMaxInFlight_CallerWorkers(o) ==
    IF o.MaxInFlight < o.Workers THEN o.Workers ELSE o.MaxInFlight

NormMaxInFlight(o) ==
    IF o.MaxInFlight < NormWorkers(o) THEN NormWorkers(o) ELSE o.MaxInFlight
Normalize(o) ==
    [o EXCEPT !.Workers = NormWorkers(o), !.MaxInFlight = NormMaxInFlight(o)]

\* the capacities of make(chan ..., opt.MaxInFlight)
OutputCap(o) == o.MaxInFlight
\* a slip: taskChan is made with twice the capacity
TaskChanCap_Double(o) == 2 * o.MaxInFlight

TaskChanCap(o) == o.MaxInFlight
ResultChanCap(o) == o.MaxInFlight

\* a slip: the loop that starts the workers counts to opt.MaxInFlight
SpawnCount_MaxInFlight(o) == o.MaxInFlight

\* the number of worker goroutines the loop i < opt.Workers starts
SpawnCount(o) == o.Workers

\* ---------------------------------------------------------- the transform

\* What fn(taskCtx, v) does when it runs to its end: "return" with
\* (Value, Err), or "panic" with a payload.
Fn(v) ==
    CASE v = 1 -> [how |-> "return", Value |-> 2 * v, Err |-> NilErr, Panic |-> 0]
      [] v = 2 -> [how |-> "return", Value |-> ZeroR, Err |-> PlainErr, Panic |-> 0]
      [] OTHER -> [how |-> "panic", Value |-> ZeroR, Err |-> NilErr, Panic |-> v]

\* fn watches its context while it works on v
Watches(v) == v = 2

\* What fn gives when it watches its context and sees it done.
FnCtxDone == [how |-> "return", Value |-> ZeroR, Err |-> CtxErr, Panic |-> 0]

\* ------------------------------------------------------------------- state

VARIABLES
    callOpt,        \* the Options the caller passed
    opt,            \* opt after normalisation
    ctxDone,        \* the root context is cancelled
    val,            \* the item the submitter holds (0: none)
    nread,          \* how many items the submitter has taken from input
    subPc,          \* submitter: "read", "send", "closed", "cancelled"
    index,          \* submitter's index counter
    taskChan, taskClosed,
    wpc,            \* worker: "none", "recv", "run", "send", "done"
    wtask,          \* the task a worker holds
    wres,           \* the result a worker is about to send
    expired,        \* the deadline of the worker's task context has passed
    wg,             \* the WaitGroup counter
    closerPc,       \* "wait", "done"
    resultChan, resultClosed,
    colPc,          \* collector: "recv", "send", "normal", "earlystop", "cancelled"
    buffer, nextIndex, successCount,
    item,           \* the buffered result the collector is about to emit
    output, outClosed,
    nOk, nErr,      \* how many results without and with Err were put on output
    crashed         \* a panic left a worker goroutine: the process is gone

vars == <<callOpt, opt, ctxDone, nread, val, subPc, index,
          taskChan, taskClosed, wpc, wtask, wres, expired, wg, closerPc,
          resultChan, resultClosed, colPc, buffer, nextIndex, successCount,
          item, output, outClosed, nOk, nErr, crashed>>

envVars == <<ctxDone>>
subVars == <<nread, val, subPc, index>>
workerVars == <<wpc, wtask, wres, expired>>
colVars == <<colPc, buffer, nextIndex, successCount, item, nOk, nErr>>

\* an empty map[int]Result[R]
EmptyBuffer == [i \in {} |-> NoResult]

\* MapOrdered is called with one of the Options values in choices: the
\* state when the goroutines have been started and none has taken a step
Start(choices) ==
    /\ callOpt \in choices
    /\ opt = Normalize(callOpt)
    /\ ctxDone = FALSE
    /\ val = 0
    /\ nread = 0
    /\ subPc = "read"
    /\ index = 0
    /\ taskChan = <<>>
    /\ taskClosed = FALSE
    /\ wpc = [w \in AllWorkers |-> IF w <= SpawnCount(opt) THEN "recv" ELSE "none"]
    /\ wtask = [w \in AllWorkers |-> NoTask]
    /\ wres = [w \in AllWorkers |-> NoResult]
    /\ expired = [w \in AllWorkers |-> FALSE]
    /\ wg = SpawnCount(opt)
    /\ closerPc = "wait"
    /\ resultChan = <<>>
    /\ resultClosed = FALSE
    /\ colPc = "recv"
    /\ buffer = EmptyBuffer
    /\ nextIndex = 0
    /\ successCount = 0
    /\ item = NoItem
    /\ output = <<>>
    /\ outClosed = FALSE
    /\ nOk = 0
    /\ nErr = 0
    /\ crashed = FALSE

Init == Start(OptionChoices)

\* ------------------------------------------------------------- the caller

\* the caller cancels the root context
Cancel ==
    /\ ~crashed /\ ~ctxDone
    /\ ctxDone' = TRUE
    /\ UNCHANGED <<callOpt, opt, subVars,
                   taskChan, taskClosed, workerVars, wg, closerPc, resultChan,
                   resultClosed, colVars, output, outClosed, crashed>>

\* the caller reads one result from output
Consume ==
    /\ ~crashed /\ output # <<>>
    /\ output' = Tail(output)
    /\ UNCHANGED <<callOpt, opt, ctxDone, subVars,
                   taskChan, taskClosed, workerVars, wg, closerPc, resultChan,
                   resultClosed, colVars, outClosed, crashed>>

\* ---------------------------------------------------------- the submitter

\* for val := range input: the caller sends an item and the submitter
\* takes it (input is a channel without buffer: the two meet)
SubmitterRead(limit) ==
    /\ ~crashed /\ subPc = "read" /\ nread < limit
    /\ val' \in Values
    /\ nread' = nread + 1
    /\ subPc' = "send"
    /\ UNCHANGED <<callOpt, opt, envVars, index,
                   taskChan, taskClosed,
                   workerVars, wg, closerPc, resultChan, resultClosed, colVars,
                   output, outClosed, crashed>>

\* for val := range input ends: the caller closes input, which the
\* submitter, the only reader, finds closed at this read and at no other
\* place; defer close(taskChan)
SubmitterInputClosed ==
    /\ ~crashed /\ subPc = "read"
    /\ subPc' = "closed"
    /\ taskClosed' = TRUE
    /\ val' = 0
    /\ UNCHANGED <<callOpt, opt, envVars, nread, index, taskChan,
                   workerVars, wg, closerPc, resultChan, resultClosed, colVars,
                   output, outClosed, crashed>>

\* the task the submitter builds from the item it holds
NewTask == [index |-> index, value |-> val, src |-> nread - 1]

\* case taskChan <- indexedTask{index, val}: index++
SubmitterSend ==
    /\ ~crashed /\ subPc = "send" /\ Len(taskChan) < TaskChanCap(opt)
    /\ taskChan' = Append(taskChan, NewTask)
    /\ index' = index + 1
    /\ subPc' = "read"
    /\ val' = 0
    /\ UNCHANGED <<callOpt, opt, envVars, nread, taskClosed,
                   workerVars, wg, closerPc, resultChan, resultClosed, colVars,
                   output, outClosed, crashed>>

\* case <-ctx.Done(): return; defer close(taskChan)
SubmitterCancel ==
    /\ ~crashed /\ subPc = "send" /\ ctxDone
    /\ subPc' = "cancelled"
    /\ taskClosed' = TRUE
    /\ val' = 0
    /\ UNCHANGED <<callOpt, opt, envVars, nread, index, taskChan,
                   workerVars, wg, closerPc, resultChan, resultClosed, colVars,
                   output, outClosed, crashed>>


\* ------------------------------------------------------------ the workers

\* a slip: fn is called with the root context, not with taskCtx
TaskCtxDone_RootOnly(w) == ctxDone

\* the task context is done: its own deadline passed, or the root context,
\* from which context.WithTimeout derives it, was cancelled
TaskCtxDone(w) == ctxDone \/ expired[w]

\* what the call fn(taskCtx, task.value) of worker w can do
Outcomes(w) ==
    {Fn(wtask[w].value)}
    \cup (IF Watches(wtask[w].value) /\ TaskCtxDone(w) THEN {FnCtxDone} ELSE {})

\* a slip: the deferred recover() never lets a panic through
Fatal_Never(out) == FALSE

\* the deferred recover() lets a panic through unless opt.PanicAsError
Fatal(out) == out.how = "panic" /\ ~opt.PanicAsError

\* a slip: recover() swallows the panic and err keeps what it was, nil
ErrOf_Swallow(out) == out.Err

\* err after the inner func(): what fn returned, or &PanicError{Panic: r}
ErrOf(out) == IF out.how = "panic" THEN PanicError(out.Panic) ELSE out.Err

\* a slip: the result is built without err
ResultOf_DropErr(t, out) ==
    [index |-> t.index, Value |-> out.Value, Err |-> NilErr, src |-> t.src,
     arg |-> t.value]

\* indexedResult{index: task.index, res: Result{Value: res, Err: err}}
ResultOf(t, out) ==
    [index |-> t.index, Value |-> out.Value, Err |-> ErrOf(out), src |-> t.src,
     arg |-> t.value]

\* select: case <-ctx.Done(): return; defer wg.Done()
WorkerRecvCancel(w) ==
    /\ ~crashed /\ wpc[w] = "recv" /\ ctxDone
    /\ wpc' = [wpc EXCEPT ![w] = "done"]
    /\ wg' = wg - 1
    /\ UNCHANGED <<callOpt, opt, envVars, subVars, taskChan, taskClosed, wtask,
                   wres, expired, closerPc, resultChan, resultClosed, colVars,
                   output, outClosed, crashed>>

\* a slip: the worker reads the head of taskChan and leaves it there
WorkerRecvTask_Peek(w) ==
    /\ ~crashed /\ wpc[w] = "recv" /\ taskChan # <<>>
    /\ wtask' = [wtask EXCEPT ![w] = Head(taskChan)]
    /\ wpc' = [wpc EXCEPT ![w] = "run"]
    /\ UNCHANGED <<callOpt, opt, envVars, subVars, taskChan, taskClosed, wres,
                   expired, wg, closerPc, resultChan, resultClosed, colVars,
                   output, outClosed, crashed>>

\* select: case task, ok := <-taskChan with ok: the worker calls fn
WorkerRecvTask(w) ==
    /\ ~crashed /\ wpc[w] = "recv" /\ taskChan # <<>>
    /\ wtask' = [wtask EXCEPT ![w] = Head(taskChan)]
    /\ taskChan' = Tail(taskChan)
    /\ wpc' = [wpc EXCEPT ![w] = "run"]
    /\ UNCHANGED <<callOpt, opt, envVars, subVars, taskClosed, wres, expired,
                   wg, closerPc, resultChan, resultClosed, colVars, output,
                   outClosed, crashed>>

\* select: case task, ok := <-taskChan with !ok: return; defer wg.Done()
WorkerRecvClosed(w) ==
    /\ ~crashed /\ wpc[w] = "recv" /\ taskChan = <<>> /\ taskClosed
    /\ wpc' = [wpc EXCEPT ![w] = "done"]
    /\ wg' = wg - 1
    /\ UNCHANGED <<callOpt, opt, envVars, subVars, taskChan, taskClosed, wtask,
                   wres, expired, closerPc, resultChan, resultClosed, colVars,
                   output, outClosed, crashed>>

\* the deadline of context.WithTimeout(ctx, opt.TaskTimeout) passes
DeadlineExpire(w) ==
    /\ ~crashed /\ wpc[w] = "run" /\ opt.TaskTimeout > 0 /\ ~expired[w]
    /\ expired' = [expired EXCEPT ![w] = TRUE]
    /\ UNCHANGED <<callOpt, opt, envVars, subVars, taskChan, taskClosed, wpc,
                   wtask, wres, wg, closerPc, resultChan, resultClosed, colVars,
                   output, outClosed, crashed>>

\* fn ends: a panic that is not converted ends the process, anything else
\* becomes the result the worker goes on to send
WorkerReturn(w) ==
    /\ ~crashed /\ wpc[w] = "run"
    /\ \E out \in Outcomes(w) :
          IF Fatal(out)
          THEN /\ crashed' = TRUE
               /\ UNCHANGED <<wpc, wtask, wres, expired>>
          ELSE /\ wres' = [wres EXCEPT ![w] = ResultOf(wtask[w], out)]
               /\ wtask' = [wtask EXCEPT ![w] = NoTask]
               /\ expired' = [expired EXCEPT ![w] = FALSE]
               /\ wpc' = [wpc EXCEPT ![w] = "send"]
               /\ UNCHANGED crashed
    /\ UNCHANGED <<callOpt, opt, envVars, subVars, taskChan, taskClosed, wg,
                   closerPc, resultChan, resultClosed, colVars, output,
                   outClosed>>

\* select: case resultChan <- indexedResult{...}
WorkerSend(w) ==
    /\ ~crashed /\ wpc[w] = "send" /\ Len(resultChan) < ResultChanCap(opt)
    /\ resultChan' = Append(resultChan, wres[w])
    /\ wres' = [wres EXCEPT ![w] = NoResult]
    /\ wpc' = [wpc EXCEPT ![w] = "recv"]
    /\ UNCHANGED <<callOpt, opt, envVars, subVars, taskChan, taskClosed, wtask,
                   expired, wg, closerPc, resultClosed, colVars, output,
                   outClosed, crashed>>

\* select: case <-ctx.Done(): return, the result is dropped; defer wg.Done()
WorkerSendCancel(w) ==
    /\ ~crashed /\ wpc[w] = "send" /\ ctxDone
    /\ wres' = [wres EXCEPT ![w] = NoResult]
    /\ wpc' = [wpc EXCEPT ![w] = "done"]
    /\ wg' = wg - 1
    /\ UNCHANGED <<callOpt, opt, envVars, subVars, taskChan, taskClosed, wtask,
                   expired, closerPc, resultChan, resultClosed, colVars, output,
                   outClosed, crashed>>

Worker(w) ==
    \/ WorkerRecvCancel(w) \/ WorkerRecvTask(w) \/ WorkerRecvClosed(w)
    \/ WorkerReturn(w) \/ WorkerSend(w) \/ WorkerSendCancel(w)

\* ------------------------------------------- the closer of the result queue

\* a slip: close(resultChan) without wg.Wait()
Closer_NoWait ==
    /\ ~crashed /\ closerPc = "wait"
    /\ closerPc' = "done"
    /\ resultClosed' = TRUE
    /\ UNCHANGED <<callOpt, opt, envVars, subVars, taskChan, taskClosed,
                   workerVars, wg, resultChan, colVars, output, outClosed,
                   crashed>>

\* wg.Wait(); close(resultChan)
Closer ==
    /\ ~crashed /\ closerPc = "wait" /\ wg = 0
    /\ closerPc' = "done"
    /\ resultClosed' = TRUE
    /\ UNCHANGED <<callOpt, opt, envVars, subVars, taskChan, taskClosed,
                   workerVars, wg, resultChan, colVars, output, outClosed,
                   crashed>>

\* ----------------------------------------------------------- the collector

\* buffer[i] = r
Put(b, i, r) == [j \in DOMAIN b \cup {i} |-> IF j = i THEN r ELSE b[j]]

\* a slip: the entry is emitted and stays in the buffer
Delete_Nothing(b, i) == b

\* delete(buffer, i)
Delete(b, i) == [j \in DOMAIN b \ {i} |-> b[j]]

\* the Result[R] of an indexedResult
ResOf(r) == [Value |-> r.Value, Err |-> r.Err, src |-> r.src, arg |-> r.arg]

\* a slip: the collector emits whatever the buffer holds, in the order of
\* arrival, without waiting for buffer[nextIndex]
LoopHead_ArrivalOrder(b, n) ==
    IF DOMAIN b # {}
    THEN /\ item' = b[CHOOSE i \in DOMAIN b : TRUE]
         /\ buffer' = Delete(b, CHOOSE i \in DOMAIN b : TRUE)
         /\ colPc' = "send"
    ELSE /\ item' = NoItem
         /\ buffer' = b
         /\ colPc' = "recv"

\* the head of the inner for: with buffer b and cursor n, either take
\* buffer[n] out and go to the select that emits it, or break to the range
LoopHead(b, n) ==
    IF n \in DOMAIN b
    THEN /\ item' = b[n]
         /\ buffer' = Delete(b, n)
         /\ colPc' = "send"
    ELSE /\ item' = NoItem
         /\ buffer' = b
         /\ colPc' = "recv"

\* for res := range resultChan: buffer[res.index] = res.res
CollectorRecv ==
    /\ ~crashed /\ colPc = "recv" /\ resultChan # <<>>
    /\ resultChan' = Tail(resultChan)
    /\ LoopHead(Put(buffer, Head(resultChan).index, ResOf(Head(resultChan))),
                nextIndex)
    /\ UNCHANGED <<callOpt, opt, envVars, subVars, taskChan, taskClosed,
                   workerVars, wg, closerPc, resultClosed, nextIndex,
                   successCount, nOk, nErr, output, outClosed, crashed>>

\* for res := range resultChan ends: resultChan is closed and drained;
\* defer close(output)
CollectorClosed ==
    /\ ~crashed /\ colPc = "recv" /\ resultChan = <<>> /\ resultClosed
    /\ colPc' = "normal"
    /\ outClosed' = TRUE
    /\ UNCHANGED <<callOpt, opt, envVars, subVars, taskChan, taskClosed,
                   workerVars, wg, closerPc, resultChan, resultClosed, buffer,
                   nextIndex, successCount, item, nOk, nErr, output, crashed>>

\* a slip: every emitted result counts, with or without Err
CountSuccess_All(c, r) == c + 1

\* successCount after item was emitted
CountSuccess(c, r) == IF r.Err = NilErr THEN c + 1 ELSE c

\* a slip: the collector also ends at the first result that carries an Err
QuotaReached_OnError(o, c, r) ==
    r.Err # NilErr \/ (o.EarlyStopN > 0 /\ c >= o.EarlyStopN)

\* a slip: the collector ends one success late
QuotaReached_Late(o, c, r) ==
    r.Err = NilErr /\ o.EarlyStopN > 0 /\ c > o.EarlyStopN

\* the test that ends the collector after an emitted success
QuotaReached(o, c, r) ==
    r.Err = NilErr /\ o.EarlyStopN > 0 /\ c >= o.EarlyStopN

\* select: case output <- item; then the early stop (return; defer
\* close(output)) or nextIndex++ and the loop head again
CollectorEmit ==
    /\ ~crashed /\ colPc = "send" /\ Len(output) < OutputCap(opt)
    /\ output' = Append(output, item)
    /\ successCount' = CountSuccess(successCount, item)
    /\ nOk' = IF item.Err = NilErr THEN nOk + 1 ELSE nOk
    /\ nErr' = IF item.Err = NilErr THEN nErr ELSE nErr + 1
    /\ IF QuotaReached(opt, successCount', item)
       THEN /\ colPc' = "earlystop"
            /\ outClosed' = TRUE
            /\ item' = NoItem
            /\ UNCHANGED <<buffer, nextIndex>>
       ELSE /\ nextIndex' = nextIndex + 1
            /\ LoopHead(buffer, nextIndex')
            /\ UNCHANGED outClosed
    /\ UNCHANGED <<callOpt, opt, envVars, subVars, taskChan, taskClosed,
                   workerVars, wg, closerPc, resultChan, resultClosed, crashed>>

\* a slip: the select that emits has no case <-ctx.Done()
CollectorCancel_Absent == FALSE /\ UNCHANGED vars

\* select: case <-ctx.Done(): return; defer close(output)
CollectorCancel ==
    /\ ~crashed /\ colPc = "send" /\ ctxDone
    /\ colPc' = "cancelled"
    /\ outClosed' = TRUE
    /\ item' = NoItem
    /\ UNCHANGED <<callOpt, opt, envVars, subVars, taskChan, taskClosed,
                   workerVars, wg, closerPc, resultChan, resultClosed, buffer,
                   nextIndex, successCount, nOk, nErr, output, crashed>>

Collector ==
    CollectorRecv \/ CollectorClosed \/ CollectorEmit \/ CollectorCancel

\* ------------------------------------------------------- the specification

\* the steps of the goroutines MapOrdered starts, without those in which
\* the caller takes part (a send on input, the close of input)
Pipeline ==
    \/ SubmitterSend \/ SubmitterCancel
    \/ \E w \in AllWorkers : Worker(w)
    \/ Closer
    \/ Collector

\* the steps that do not need a cancelled root context, other than the
\* caller's send on input
Uncancelled ==
    \/ Consume
    \/ SubmitterInputClosed
    \/ SubmitterSend
    \/ \E w \in AllWorkers : WorkerRecvTask(w)
    \/ \E w \in AllWorkers : WorkerRecvClosed(w)
    \/ \E w \in AllWorkers : DeadlineExpire(w)
    \/ \E w \in AllWorkers : WorkerReturn(w)
    \/ \E w \in AllWorkers : WorkerSend(w)
    \/ Closer
    \/ CollectorRecv
    \/ CollectorClosed
    \/ CollectorEmit

\* the cases <-ctx.Done() of the selects
OnCancel ==
    \/ SubmitterCancel
    \/ \E w \in AllWorkers : WorkerRecvCancel(w)
    \/ \E w \in AllWorkers : WorkerSendCancel(w)
    \/ CollectorCancel

\* the steps other than the caller's send on input and its cancellation
Steps == Uncancelled \/ OnCancel

Next ==
    \/ Cancel
    \/ SubmitterRead(MaxItems)
    \/ Uncancelled
    \/ OnCancel

\* every run of MapOrdered with at most MaxItems items
Spec == Init /\ [][Next]_vars

\* the caller never cancels the root context, so that no case
\* <-ctx.Done() is ever taken
NextLong ==
    \/ SubmitterRead(MaxItemsLong)
    \/ Uncancelled

\* the runs with at most MaxItemsLong items in which the root context is
\* never cancelled
SpecLong == Init /\ [][NextLong]_vars

\* the runs with at most MaxItemsSizes items, over every case of the sizes
\* in Options, in which the root context is never cancelled
NextSizes ==
    \/ SubmitterRead(MaxItemsSizes)
    \/ Uncancelled

SpecSizes == Start(SizeOptionChoices) /\ [][NextSizes]_vars

\* the runs with at most MaxItemsDeep items and one worker in which the
\* root context is never cancelled: long enough for the queues to fill
\* while the caller still has items to send
NextDeep ==
    \/ SubmitterRead(MaxItemsDeep)
    \/ Uncancelled

SpecDeep == Start(DeepOptionChoices) /\ [][NextDeep]_vars

\* ------------------------------------------------- what the claims speak of

\* how many results the collector has put on output so far
nEmitted == nOk + nErr

\* how many results the caller has read from output so far
nDelivered == nEmitted - Len(output)

\* the goroutines the caller takes no part in have nothing left to do
PipelineIdle == ~ENABLED Pipeline

\* nothing is left to do, for the goroutines, for a caller who reads output
\* and closes input, and for the deadlines
Quiescent == ~ENABLED Steps

\* the submitter is over because the caller closed input
InputClosed == subPc = "closed"

SubmitterExited == subPc \in {"closed", "cancelled"}
WorkersExited == \A w \in AllWorkers : wpc[w] \in {"none", "done"}
CollectorExited == colPc \in {"normal", "earlystop", "cancelled"}
AllExited ==
    SubmitterExited /\ WorkersExited /\ closerPc = "done" /\ CollectorExited

\* the workers whose call of fn is in progress
Running == {w \in AllWorkers : wpc[w] = "run"}

\* r holds what fn gives for the item r was made from: what fn returns, a
\* PanicError with the payload when it panics, or the context's error when
\* fn watches a context that can be done (a deadline, a cancellation)
IsOutcome(r) ==
    \/ /\ Fn(r.arg).how = "return"
       /\ r.Value = Fn(r.arg).Value /\ r.Err = Fn(r.arg).Err
    \/ /\ Fn(r.arg).how = "panic"
       /\ r.Value = ZeroR /\ r.Err = PanicError(Fn(r.arg).Panic)
    \/ /\ Watches(r.arg) /\ (opt.TaskTimeout > 0 \/ ctxDone)
       /\ r.Value = ZeroR /\ r.Err = CtxErr

\* the results on output continue, in order, the ones the caller has read:
\* the k-th result ever put on output was made from the k-th input item
InOrder == \A k \in 1..Len(output) : output[k].src = nDelivered + k - 1

\* ----------------------------------------------------------------- claims

\* C1: the original indices of the results put on output are 0, 1, 2, ...
\* with no gap, no repeat and no inversion, in every reachable state, also
\* after an early stop or a cancellation: the results still on output
\* carry, in order, the positions that follow the ones already read.
C1_OrderPreserved == InOrder /\ nDelivered >= 0

\* C1 witness: two workers, and the results of positions 1 and 2 are on
\* output behind the result of position 0, which the caller has read
C1_Witness ==
    /\ opt.Workers = 2 /\ Len(output) = 2
    /\ output[1].src = 1 /\ output[2].src = 2

\* C2: input closed after N items, no cancellation, EarlyStopN = 0, every
\* call of fn comes back and the caller keeps reading: when nothing is left
\* to do, exactly N results were emitted and output is closed; output is
\* closed only then; and the i-th emitted result is fn's outcome for the
\* i-th item.
C2_AllEmittedThenClosed ==
    (~ctxDone /\ opt.EarlyStopN = 0 /\ ~crashed) =>
        /\ InOrder
        /\ \A k \in 1..Len(output) : IsOutcome(output[k])
        /\ (InputClosed /\ Quiescent) =>
              (outClosed /\ colPc = "normal" /\ nEmitted = nread /\ output = <<>>)
        /\ outClosed => (InputClosed /\ colPc = "normal" /\ nEmitted = nread)

\* C2 witness: three items, a success, an error and a success, all emitted
\* and read, and output closed by the end of the range over resultChan
C2_Witness ==
    /\ ~ctxDone /\ opt.EarlyStopN = 0 /\ ~crashed /\ opt.Workers = 2
    /\ InputClosed /\ Quiescent /\ outClosed
    /\ nread = 3 /\ nOk = 2 /\ nErr = 1

\* C3 as the spec states it: with EarlyStopN = K > 0, exactly K results
\* are emitted when the collector stops early.
C3_ExactlyKResults ==
    (opt.EarlyStopN > 0 /\ colPc = "earlystop") => nEmitted = opt.EarlyStopN

\* C3 as amended: with EarlyStopN = K > 0 never more than K results
\* without Err are emitted; the collector stops, and closes output, in the
\* step that emits the K-th of them, so that nothing beyond its index is
\* emitted; what was emitted up to then is those K results and every
\* result with Err that precedes the K-th success.  Without cancellation
\* and fatal panic, once input is closed and nothing is left to do, the
\* collector has stopped early unless the input held fewer than K
\* successes, and then every item's result was emitted.
C3_StopsAtKthSuccess ==
    opt.EarlyStopN > 0 =>
        /\ nOk <= opt.EarlyStopN
        /\ nOk = opt.EarlyStopN <=> colPc = "earlystop"
        /\ colPc = "earlystop" =>
              /\ outClosed
              /\ nEmitted = nextIndex + 1
              /\ nEmitted = opt.EarlyStopN + nErr
              /\ output # <<>> => output[Len(output)].Err = NilErr
        /\ InOrder
        /\ (~ctxDone /\ ~crashed /\ InputClosed /\ Quiescent) =>
              \/ colPc = "earlystop"
              \/ colPc = "normal" /\ nEmitted = nread /\ nOk < opt.EarlyStopN

\* C3 witness: the collector stopped early after a result with Err and
\* two results without
C3_Witness ==
    /\ opt.EarlyStopN = 2 /\ colPc = "earlystop"
    /\ nErr = 1 /\ nOk = 2 /\ nread = 3

\* C4: after an early stop, and with no cancellation, the submitter and
\* every worker come to an end: when nothing is left to do, none of them
\* is still blocked in a send.
C4_EarlyStopReleasesAll ==
    (colPc = "earlystop" /\ ~ctxDone /\ ~crashed /\ Quiescent) =>
        (SubmitterExited /\ WorkersExited)

\* C5: output is closed on every exit path, provided every call of fn
\* comes back: after a cancellation, as soon as the goroutines have nothing
\* left to do, whether or not the caller reads output or closes input;
\* and without one, when input is closed, the caller reads output and
\* nothing is left to do.  Output is closed exactly when the collector
\* has left its loop.
C5_OutputClosed ==
    ~crashed =>
        /\ (ctxDone /\ PipelineIdle) => outClosed
        /\ (SubmitterExited /\ Quiescent) => outClosed
        /\ outClosed <=> CollectorExited

\* C5 witness: the root context is cancelled while input is open and
\* output full and unread; the collector has left by its case
\* <-ctx.Done() and output is closed
C5_Witness ==
    /\ ctxDone /\ ~crashed /\ PipelineIdle /\ subPc = "read"
    /\ Len(output) = OutputCap(opt) /\ colPc = "cancelled" /\ outClosed

\* C6: after a cancellation of the root context every goroutine of the
\* pipeline comes to an end, also when input is still open: when the
\* goroutines have nothing left to do, all of them have exited.
C6_CancelEndsAll ==
    (ctxDone /\ ~crashed /\ PipelineIdle) => AllExited

\* the results the pipeline holds: those the workers are about to send,
\* those in resultChan, in the buffer, in the collector's hand, on output
Held ==
    {ResOf(wres[w]) : w \in {v \in AllWorkers : wpc[v] = "send"}}
    \cup {ResOf(resultChan[k]) : k \in 1..Len(resultChan)}
    \cup {buffer[i] : i \in DOMAIN buffer}
    \cup (IF colPc = "send" THEN {item} ELSE {})
    \cup {output[k] : k \in 1..Len(output)}

\* C7: with PanicAsError a panic of fn on an item never ends the process;
\* the one result made for that item carries a PanicError with the panic's
\* payload and no other error; no two results are made from one item; and
\* without cancellation and early stop, once input is closed and nothing
\* is left to do, every item has its result on output, in order, and the
\* collector ended by the end of its range.
C7_PanicAsError ==
    opt.PanicAsError =>
        /\ ~crashed
        /\ \A r \in Held :
              Fn(r.arg).how = "panic" <=> r.Err = PanicError(r.arg)
        /\ \A r1, r2 \in Held : r1.src = r2.src => r1 = r2
        /\ InOrder
        /\ (~ctxDone /\ opt.EarlyStopN = 0 /\ InputClosed /\ Quiescent) =>
              (colPc = "normal" /\ outClosed /\ nEmitted = nread /\ WorkersExited)

\* C7 witness: one worker; the first of three items made fn panic, the
\* other two were worked on after it, and all three results were emitted
C7_Witness ==
    /\ opt.PanicAsError /\ opt.Workers = 1 /\ ~ctxDone /\ opt.EarlyStopN = 0
    /\ colPc = "normal" /\ nEmitted = 3 /\ nErr = 1 /\ Len(output) = 2
    /\ output[1].Err = NilErr /\ output[2].Err = NilErr
    /\ WorkersExited

\* C8: the reorder buffer never holds more than MaxInFlight results.
C8_BufferBounded == Cardinality(DOMAIN buffer) <= opt.MaxInFlight

\* C9: with EarlyStopN = 0 and no cancellation an error that fn returns
\* ends nothing: the collector never leaves its loop except at the end of
\* its range, a result that carries the error is emitted at the position
\* of its item, and once input is closed and nothing is left to do every
\* item, before or after the error, has its one result on output.
C9_ErrorsDoNotAbort ==
    (opt.EarlyStopN = 0 /\ ~ctxDone /\ ~crashed) =>
        /\ colPc \in {"recv", "send", "normal"}
        /\ \A k \in 1..Len(output) :
              /\ output[k].src = nDelivered + k - 1
              /\ Fn(output[k].arg).Err # NilErr => output[k].Err # NilErr
              /\ output[k].Err \in {PlainErr, CtxErr} =>
                    Fn(output[k].arg).Err = PlainErr
        /\ (InputClosed /\ Quiescent) => (nOk + nErr = nread /\ colPc = "normal")

\* C9 witness: fn returned an error for the first of three items and the
\* results of the two items after it were emitted behind the error's
C9_Witness ==
    /\ opt.EarlyStopN = 0 /\ ~ctxDone /\ ~crashed /\ opt.Workers = 2
    /\ colPc = "normal" /\ nErr = 1 /\ nOk = 2
    /\ Len(output) = 2 /\ output[1].Err = NilErr /\ output[2].Err = NilErr

\* C10: never more calls of fn in progress than the effective Workers; a
\* worker holds a task exactly while its one call of fn is in progress,
\* and no goroutine beyond the first Workers ones was started.
C10_AtMostWorkersRunning ==
    /\ Cardinality(Running) <= opt.Workers
    /\ \A w \in AllWorkers : wpc[w] = "run" <=> wtask[w] # NoTask
    /\ \A w \in AllWorkers : w > opt.Workers => wpc[w] = "none"

\* C10 witness: with Workers = 2 both workers are in a call of fn
C10_Witness == opt.Workers = 2 /\ Cardinality(Running) = 2

\* C11: Options that are not valid are normalised and the call goes on:
\* with Workers <= 0 exactly one worker goroutine is started, otherwise
\* Workers of them; with MaxInFlight below that number of workers, zero and
\* negative included, the task queue, the result queue and output have a
\* capacity equal to it, otherwise MaxInFlight as passed; the other
\* options are as passed; and the pipeline so made works every item:
\* without early stop, cancellation and fatal panic, once input is closed
\* and nothing is left to do, each item has its result emitted and output
\* is closed.
C11_OptionsNormalized ==
    LET started == {w \in AllWorkers : wpc[w] # "none"}
        workers == IF callOpt.Workers <= 0 THEN 1 ELSE callOpt.Workers
        capacity ==
            IF callOpt.MaxInFlight < workers THEN workers ELSE callOpt.MaxInFlight
    IN  /\ Cardinality(started) = workers
        /\ TaskChanCap(opt) = capacity
        /\ ResultChanCap(opt) = capacity
        /\ OutputCap(opt) = capacity
        /\ (callOpt.Workers > 0 /\ callOpt.MaxInFlight >= callOpt.Workers) =>
              opt = callOpt
        /\ opt.EarlyStopN = callOpt.EarlyStopN
        /\ opt.PanicAsError = callOpt.PanicAsError
        /\ opt.TaskTimeout = callOpt.TaskTimeout
        /\ (opt.EarlyStopN = 0 /\ ~ctxDone /\ ~crashed /\ InputClosed /\ Quiescent) =>
              (outClosed /\ nEmitted = nread)

\* C11 witness: called with Workers and MaxInFlight both negative, the
\* one worker that was started is in a call of fn for the first item and
\* the second item fills the task queue of capacity 1
C11_Witness ==
    /\ callOpt.Workers < 0 /\ callOpt.MaxInFlight < 0
    /\ wpc[1] = "run" /\ wpc[2] = "none"
    /\ Len(taskChan) = 1 /\ TaskChanCap(opt) = 1 /\ nread = 2

\* C12: without PanicAsError a panic of fn is neither swallowed nor made
\* into a result: no result made from an item on which fn panics is ever
\* held by a worker, in resultChan, in the buffer or on output; the call
\* of fn on such an item can end in no other way than by the panic leaving
\* the worker; and once it has, the process is gone: the worker still
\* holds the task and no goroutine takes another step.
C12_PanicIsFatal ==
    ~opt.PanicAsError =>
        /\ \A r \in Held : Fn(r.arg).how # "panic"
        /\ \A w \in AllWorkers :
              (wpc[w] = "run" /\ Fn(wtask[w].value).how = "panic") =>
                  ~ENABLED (WorkerReturn(w) /\ ~crashed')
        /\ crashed =>
              /\ \E w \in AllWorkers :
                    wpc[w] = "run" /\ Fn(wtask[w].value).how = "panic"
              /\ ~ENABLED Next

\* C12 witness: without PanicAsError, fn panicked on the second item after
\* the first item's result was emitted; the other worker is left with a
\* result it will never send
C12_Witness ==
    /\ ~opt.PanicAsError /\ crashed /\ nOk = 1
    /\ \E w \in AllWorkers : wpc[w] = "run" /\ wtask[w].index = 1
    /\ \E w \in AllWorkers : wpc[w] = "send" /\ wres[w].index = 2

\* C13: with TaskTimeout > 0 every call of fn has a deadline of its own:
\* a deadline that has passed belongs to the call in progress and to no
\* later one.  When the deadline of an item's call has passed and fn
\* watches its context, fn can end with the context's error; a result
\* with that error comes only from such a call, carries no value and is
\* emitted at the position of its item.  The passing of a deadline never
\* cancels the root context, and the items after it are worked as usual:
\* without cancellation, once input is closed and nothing is left to do,
\* every item has its result emitted.  A cancelled root context is seen
\* as done by every call of fn in progress, deadline or not.
C13_TaskDeadline ==
    /\ \A w \in AllWorkers :
          /\ expired[w] => (wpc[w] = "run" /\ opt.TaskTimeout > 0)
          /\ ~ENABLED (DeadlineExpire(w) /\ ctxDone' # ctxDone)
          /\ (wpc[w] = "run" /\ Watches(wtask[w].value)) =>
                /\ expired[w] => FnCtxDone \in Outcomes(w)
                /\ ctxDone => FnCtxDone \in Outcomes(w)
                /\ (~expired[w] /\ ~ctxDone) => FnCtxDone \notin Outcomes(w)
    /\ \A r \in Held :
          r.Err = CtxErr =>
              (Watches(r.arg) /\ r.Value = ZeroR /\ (opt.TaskTimeout > 0 \/ ctxDone))
    /\ InOrder
    /\ (opt.TaskTimeout > 0 /\ ~ctxDone /\ InputClosed /\ Quiescent) =>
          (colPc = "normal" /\ outClosed /\ nEmitted = nread)

\* C13 witness: with a deadline and no cancellation, the first item's
\* result carries the context's error and the second item's result, a
\* success, stands behind it on output
C13_Witness ==
    /\ opt.TaskTimeout > 0 /\ ~ctxDone /\ Len(output) = 2
    /\ output[1].Err = CtxErr /\ output[1].src = 0
    /\ output[2].Err = NilErr /\ output[2].src = 1

\* C14: taskChan is closed exactly when the submitter has returned, so
\* after its last send; resultChan is closed exactly when the closer has
\* passed wg.Wait(), and then every worker has returned, wg counting the
\* workers that have not; output is closed exactly when the collector has
\* left its loop.  Once one of the three is closed, no step that closes it
\* again and no step that sends on it can be taken, whichever way the
\* goroutines ended: end of input, early stop or cancellation.
C14_ClosingOrder ==
    /\ taskClosed <=> SubmitterExited
    /\ taskClosed =>
          ~ENABLED (SubmitterSend \/ SubmitterInputClosed \/ SubmitterCancel)
    /\ wg = Cardinality({w \in AllWorkers : wpc[w] \in {"recv", "run", "send"}})
    /\ resultClosed <=> closerPc = "done"
    /\ resultClosed =>
          /\ WorkersExited /\ wg = 0
          /\ ~ENABLED (Closer \/ \E w \in AllWorkers : WorkerSend(w))
    /\ outClosed <=> CollectorExited
    /\ outClosed => ~ENABLED Collector

\* C14 witness: after a cancellation the submitter and the collector left
\* by their cases <-ctx.Done(), the workers have returned, and the three
\* channels are closed
C14_Witness ==
    /\ ctxDone /\ subPc = "cancelled" /\ colPc = "cancelled" /\ WorkersExited
    /\ taskClosed /\ resultClosed /\ outClosed

\* the tasks and the results that are under way, each with the place where
\* it stands, its index and the input position of its item: the tasks in
\* taskChan and in the workers' calls of fn, the results the workers are
\* about to send, those in resultChan, in the buffer and in the
\* collector's hand
UnderWay ==
    {<<"taskChan", k, taskChan[k].index, taskChan[k].src>> :
        k \in 1..Len(taskChan)}
    \cup {<<"fn", w, wtask[w].index, wtask[w].src>> : w \in Running}
    \cup {<<"worker", w, wres[w].index, wres[w].src>> :
            w \in {v \in AllWorkers : wpc[v] = "send"}}
    \cup {<<"resultChan", k, resultChan[k].index, resultChan[k].src>> :
            k \in 1..Len(resultChan)}
    \cup {<<"buffer", i, i, buffer[i].src>> : i \in DOMAIN buffer}
    \cup (IF colPc = "send" THEN {<<"item", 0, nextIndex, item.src>>} ELSE {})

\* C15: the submitter gives the items the indices 0, 1, 2, ... in the
\* order of their arrival: its counter is the number of items it has sent
\* on, and every task and result under way carries as index the input
\* position of its item.  No index stands at two places at once: a task
\* taken by a worker is in no other worker's hand and no longer in
\* taskChan, a call of fn in progress is the only one for its item and its
\* result does not exist yet, and what is under way was not emitted
\* before.  So the result the collector receives next is never for an
\* index the buffer already holds.
C15_ExactlyOnce ==
    /\ index = nread - (IF subPc \in {"send", "cancelled"} THEN 1 ELSE 0)
    /\ \A p \in UnderWay : p[3] = p[4] /\ p[3] < index /\ p[3] >= nEmitted
    /\ \A p, q \in UnderWay : p[3] = q[3] => p = q
    /\ \A k \in 1..Len(taskChan) : taskChan[k].index = taskChan[1].index + k - 1
    /\ resultChan # <<>> => Head(resultChan).index \notin DOMAIN buffer

\* C15 witness: of three items the first is in a call of fn, the result
\* of the second waits in the buffer, and the third is in taskChan
C15_Witness ==
    /\ DOMAIN buffer = {1}
    /\ \E w \in AllWorkers : wpc[w] = "run" /\ wtask[w].index = 0
    /\ Len(taskChan) = 1 /\ taskChan[1].index = 2

\* how many results the collector has received, counted from the side of
\* the senders while no worker has dropped a result: the tasks sent less
\* those in taskChan, in a call of fn, in a worker's hand and in resultChan
nReceived ==
    index - Len(taskChan) - Cardinality(Running)
          - Cardinality({w \in AllWorkers : wpc[w] = "send"}) - Len(resultChan)

\* C16: whenever the collector waits at its range over resultChan, every
\* index in the buffer is above nextIndex, nextIndex is the number of
\* results emitted so far, and the entries that have left the buffer are
\* the emitted ones and no other: before any cancellation the results
\* received are those emitted and those in the buffer.  An entry leaves
\* the buffer when the collector takes it in hand to emit it: while the
\* collector is at the select that emits, the result in its hand is the
\* one of nextIndex, the buffer no longer holds that index, and the
\* results received are the emitted ones, the buffered ones and this one.
C16_BufferAheadOfCursor ==
    /\ colPc = "recv" =>
          /\ \A i \in DOMAIN buffer : i > nextIndex
          /\ nextIndex = nEmitted
          /\ item = NoItem
          /\ ~ctxDone => nReceived = nEmitted + Cardinality(DOMAIN buffer)
    /\ colPc = "send" =>
          /\ \A i \in DOMAIN buffer : i > nextIndex
          /\ nextIndex = nEmitted
          /\ item.src = nextIndex
          /\ ~ctxDone => nReceived = nEmitted + Cardinality(DOMAIN buffer) + 1

\* C16 witness: the collector waits with the first result emitted, the
\* third in the buffer and the second still to come
C16_Witness ==
    /\ colPc = "recv" /\ nextIndex = 1 /\ nEmitted = 1
    /\ DOMAIN buffer = {2} /\ ~ctxDone

\* the indices on the way from the submitter to the collector, the nearest
\* to the collector first, when worker 1 is the only worker: those in
\* resultChan, the one of the result in the worker's hand, the one of the
\* task in its call of fn, those in taskChan
OneWorkerLine ==
    [k \in 1..Len(resultChan) |-> resultChan[k].index]
    \o (IF wpc[1] = "send" THEN <<wres[1].index>> ELSE <<>>)
    \o (IF wpc[1] = "run" THEN <<wtask[1].index>> ELSE <<>>)
    \o [k \in 1..Len(taskChan) |-> taskChan[k].index]

\* C17: called with Workers = 1, or with Workers <= 0, the pipeline works
\* the items one after the other, whatever MaxInFlight is: at most one
\* call of fn is in progress; the indices under way stand in input order
\* from the collector back to the submitter, without a gap before any
\* cancellation, so that fn is called on the items in the order of their
\* arrival; the results in resultChan continue the ones the collector has
\* received, so that each is received with its index equal to nextIndex;
\* and the buffer never keeps an entry: the one result put in it is taken
\* out in the same pass of the loop.
C17_OneWorkerSequential ==
    callOpt.Workers <= 1 =>
        LET line == OneWorkerLine
            first == nEmitted + (IF colPc \in {"send", "cancelled"} THEN 1 ELSE 0)
        IN  /\ Cardinality(Running) <= 1
            /\ \A w \in AllWorkers : w > 1 => wpc[w] = "none"
            /\ \A k \in 1..Len(resultChan) : resultChan[k].index = first + k - 1
            /\ (colPc = "recv" /\ resultChan # <<>>) =>
                  Head(resultChan).index = nextIndex
            /\ \A j, k \in 1..Len(line) : j < k => line[j] < line[k]
            /\ ~ctxDone => \A k \in 1..Len(line) : line[k] = first + k - 1
            /\ buffer = EmptyBuffer

\* C17 witness: one worker and MaxInFlight = 2: the first result is in
\* resultChan, fn is called on the second item and the third waits in
\* taskChan
C17_Witness ==
    /\ opt.Workers = 1 /\ opt.MaxInFlight = 2
    /\ OneWorkerLine = <<0, 1, 2>>
    /\ Len(resultChan) = 1 /\ wpc[1] = "run" /\ Len(taskChan) = 1

\* C18: successCount is the number of emitted results without Err: a
\* result with Err is emitted and leaves both successCount and the
\* collector's loop as they are.  With EarlyStopN = K > 0 never more than
\* K results without Err are emitted, the collector has stopped early
\* exactly when K of them were emitted, and the step that emits the K-th
\* is the step in which it stops, whatever the buffer still holds.  With
\* EarlyStopN = 0 the collector never stops early.
C18_OnlySuccessesCount ==
    /\ successCount = nOk
    /\ (colPc = "send" /\ item.Err # NilErr) =>
          ~ENABLED (CollectorEmit /\
                    (successCount' # successCount \/ colPc' = "earlystop"))
    /\ opt.EarlyStopN > 0 =>
          /\ nOk <= opt.EarlyStopN
          /\ colPc = "earlystop" <=> nOk = opt.EarlyStopN
          /\ (colPc = "send" /\ item.Err = NilErr) =>
                IF nOk + 1 = opt.EarlyStopN
                THEN ~ENABLED (CollectorEmit /\ colPc' # "earlystop")
                ELSE ~ENABLED (CollectorEmit /\ colPc' = "earlystop")
    /\ opt.EarlyStopN = 0 => colPc # "earlystop"

\* C18 witness: EarlyStopN = 2 and three successes: the collector stopped
\* after the second, and the third result is left in the buffer
C18_Witness ==
    /\ opt.EarlyStopN = 2 /\ colPc = "earlystop" /\ nOk = 2 /\ nErr = 0
    /\ DOMAIN buffer = {2} /\ buffer[2].Err = NilErr

\* C19: once the root context is cancelled no worker takes a task from
\* taskChan, and so begins no call of fn, also when taskChan holds tasks;
\* and no worker puts a result in resultChan.
C19_CancelStopsWorkers ==
    ctxDone =>
        \A w \in AllWorkers : ~ENABLED WorkerRecvTask(w) /\ ~ENABLED WorkerSend(w)

\* how many results the collector has received, counted at the collector:
\* those it emitted, those in its buffer, and the one it has in hand or
\* dropped at its case <-ctx.Done()
nCollected ==
    nEmitted + Cardinality(DOMAIN buffer)
             + (IF colPc \in {"send", "cancelled"} THEN 1 ELSE 0)

\* C20: taskChan, resultChan and output never hold more than the
\* effective MaxInFlight, and the items the submitter has read whose
\* result the collector has not received are never more than
\* 2 * MaxInFlight + Workers + 1; when they are that many the submitter
\* is blocked in its send on the full taskChan, unless a cancellation
\* made it return from there, and reads no further item, though the
\* caller has more to send.
C20_Backpressure ==
    LET bound == 2 * opt.MaxInFlight + opt.Workers + 1
        pending == nread - nCollected
    IN  /\ Len(taskChan) <= opt.MaxInFlight
        /\ Len(resultChan) <= opt.MaxInFlight
        /\ Len(output) <= opt.MaxInFlight
        /\ pending <= bound
        /\ pending = bound =>
              /\ subPc \in {"send", "cancelled"}
              /\ Len(taskChan) = opt.MaxInFlight
              /\ ~ENABLED SubmitterSend
              /\ ~ENABLED SubmitterRead(MaxItemsDeep)

\* C20 witness: MaxInFlight = 2 and one worker: six items are read and no
\* result of them has reached the collector; the caller has a seventh
\* item to send and the submitter does not take it
C20_Witness ==
    /\ opt.MaxInFlight = 2 /\ opt.Workers = 1
    /\ nread = 6 /\ nCollected = 0 /\ nread < MaxItemsDeep
    /\ Len(taskChan) = 2 /\ Len(resultChan) = 2 /\ subPc = "send"

====
